---- MODULE Spec2Model ----
(***************************************************************************)
(* Notification pipeline of routes_notifications.py: the two webhook       *)
(* handlers, the background vessel-screening task and the SSE connection   *)
(* manager with its stream endpoint.                                       *)
(*                                                                         *)
(* Atomicity follows the asyncio event loop: code between two points where *)
(* a coroutine really suspends runs as one action.  pymongo calls are      *)
(* synchronous, and asyncio.Lock is only ever held over code without an    *)
(* await, so connect / disconnect / broadcast_notification never suspend.  *)
(***************************************************************************)
EXTENDS Integers, Sequences, FiniteSets, TLC

(***************************************************************************)
(* Bounds of the model.                                                    *)
(***************************************************************************)
MaxRequests == 2      \* webhook requests handled in one behaviour
MaxStreams == 3       \* stream requests (each creates one asyncio.Queue)
PipelineStreams == 1  \* stream requests beside the pipeline (Spec)
MaxHeartbeats == 1    \* heartbeats beside the hub's streams (SpecHub)
total_attempts == 3   \* routes_notifications.py:289 has 50; scaled
max_connections == 2  \* routes_notifications.py:28 has 100; scaled
maxsize == 2          \* routes_notifications.py:577 has 50; scaled

\* routes_notifications.py:289 as written, for the specification that runs
\* the poll loop at its full length (SpecPolling)
full_total_attempts == 50

(***************************************************************************)
(* Python values.  Strings are sequences of one-character strings; a list   *)
(* holds its items (values) and a dict its values by key.                  *)
(***************************************************************************)
None == [tag |-> "none", s |-> <<>>, n |-> 0]
PyStr(x) == [tag |-> "str", s |-> x, n |-> 0]
PyInt(k) == [tag |-> "int", s |-> <<>>, n |-> k]
PyBool(b) == [tag |-> "bool", s |-> <<>>, n |-> IF b THEN 1 ELSE 0]
PyList(x) == [tag |-> "list", s |-> <<>>, n |-> 0, items |-> x]
PyDict(f) == [tag |-> "dict", s |-> <<>>, n |-> 0, fields |-> f]

\* bool(v)
Truthy(v) ==
    CASE v.tag = "none" -> FALSE
      [] v.tag = "str"  -> Len(v.s) > 0
      [] v.tag = "list" -> Len(v.items) > 0
      [] v.tag = "dict" -> DOMAIN v.fields # {}
      [] OTHER          -> v.n # 0

\* str.upper() on the characters the model uses
UpperChar(c) ==
    CASE c = "t" -> "T"
      [] c = "r" -> "R"
      [] c = "u" -> "U"
      [] c = "e" -> "E"
      [] c = "f" -> "F"
      [] c = "a" -> "A"
      [] c = "l" -> "L"
      [] c = "s" -> "S"
      [] OTHER   -> c

Upper(s) == [i \in 1..Len(s) |-> UpperChar(s[i])]

\* str.isspace() on the characters the model uses
IsSpace(c) == c \in {" ", "\t"}

\* str.strip()
Strip(s) ==
    LET keep == {i \in 1..Len(s) : ~IsSpace(s[i])}
    IN  IF keep = {} THEN <<>>
        ELSE LET lo == CHOOSE i \in keep : \A j \in keep : i <= j
                 hi == CHOOSE i \in keep : \A j \in keep : j <= i
             IN  SubSeq(s, lo, hi)

\* s.rsplit("|", 1)
SplitBar1_Last(s) ==
    LET bars == {i \in 1..Len(s) : s[i] = "|"}
    IN  IF bars = {} THEN <<s>>
        ELSE LET k == CHOOSE i \in bars : \A j \in bars : j <= i
             IN  <<SubSeq(s, 1, k - 1), SubSeq(s, k + 1, Len(s))>>

\* s.split("|", 1): the list of parts
SplitBar1(s) ==
    LET bars == {i \in 1..Len(s) : s[i] = "|"}
    IN  IF bars = {} THEN <<s>>
        ELSE LET k == CHOOSE i \in bars : \A j \in bars : i <= j
             IN  <<SubSeq(s, 1, k - 1), SubSeq(s, k + 1, Len(s))>>

\* "|" in v, for a str (substring), a list (membership) or a dict (key);
\* an int raises
HasBar(v) ==
    CASE v.tag = "list" -> \E i \in 1..Len(v.items) : v.items[i] = PyStr(<<"|">>)
      [] v.tag = "dict" -> "|" \in DOMAIN v.fields
      [] OTHER          -> \E i \in 1..Len(v.s) : v.s[i] = "|"

TRUE_ == <<"T", "R", "U", "E">>

(***************************************************************************)
(* handle_zone_port_webhook, lines 370-385: user_id and auto_screen from   *)
(* custom_reference.  raised: an exception escapes to the outer handler.   *)
(***************************************************************************)
DeriveZonePort(custom_ref) ==
    IF ~Truthy(custom_ref)
    THEN [raised |-> FALSE, user_id |-> None, auto_screen |-> None]
    ELSE IF custom_ref.tag \notin {"str", "list", "dict"}
    THEN [raised |-> TRUE, user_id |-> None, auto_screen |-> None]
    ELSE IF ~HasBar(custom_ref)
    THEN [raised |-> FALSE, user_id |-> None, auto_screen |-> None]
    ELSE IF custom_ref.tag # "str"
    THEN [raised |-> FALSE, user_id |-> None, auto_screen |-> None]
    ELSE LET parts == SplitBar1(custom_ref.s)
             user_id_part == Strip(parts[1])
             auto_screen_part == Strip(parts[2])
         IN  [raised |-> FALSE,
              user_id |-> PyStr(user_id_part),
              auto_screen |-> PyBool(Upper(auto_screen_part) = TRUE_)]

\* handle_vessel_webhook, lines 418-425
DeriveVessel(custom_ref) ==
    IF Truthy(custom_ref) THEN custom_ref ELSE None


(***************************************************************************)
(* The payload.  Only the part the screening task reads is kept: the two   *)
(* places of vessel_information.  A place is "absent" (no such key), "bad" *)
(* (a value that is no dict), "noimo" (a dict without imo) or the imo.     *)
(*   notif: "absent" | "bad" | "dict"     payload["notification"]          *)
(*   nvi:   payload["notification"]["vessel_information"] (notif = "dict") *)
(*   vi:    payload["vessel_information"]                                  *)
(***************************************************************************)
Imos == {"9074729"}

\* line 254: str(first.get("imo") or second.get("imo")) inside try/except
ExtractImo(p) ==
    LET inner == IF p.notif = "absent" THEN "absent" ELSE p.nvi
    IN  IF p.notif = "bad" \/ inner = "bad"
        THEN [raised |-> TRUE, imo |-> ""]
        ELSE IF inner \in Imos
        THEN [raised |-> FALSE, imo |-> inner]
        ELSE IF p.vi = "bad"
        THEN [raised |-> TRUE, imo |-> ""]
        ELSE IF p.vi \in Imos
        THEN [raised |-> FALSE, imo |-> p.vi]
        ELSE [raised |-> FALSE, imo |-> "None"]

(***************************************************************************)
(* Stored documents.                                                       *)
(***************************************************************************)
NoResults ==
    [present |-> FALSE, transaction_id |-> "", overall_severity |-> "",
     company_sanctions |-> "", ship_sanctions |-> "", ship_movement |-> "",
     psc |-> ""]

\* lines 367-387: the document handed to insert_one
ZonePortDoc(custom_ref, payload) ==
    LET d == DeriveZonePort(custom_ref)
    IN  [kind |-> "ZonePortEvent", received_at |-> "utcnow",
         custom_reference |-> custom_ref, user_id |-> d.user_id,
         auto_screen |-> d.auto_screen, payload |-> payload,
         screening_results |-> NoResults]

\* lines 416-426
VesselDoc(custom_ref, payload) ==
    [kind |-> "VesselEvent", received_at |-> "utcnow",
     custom_reference |-> custom_ref, user_id |-> DeriveVessel(custom_ref),
     auto_screen |-> None, payload |-> payload,
     screening_results |-> NoResults]

(***************************************************************************)
(* State.                                                                  *)
(***************************************************************************)
VARIABLES
    reqLog,              \* the webhook requests handled, with their responses
    store,               \* the notification collections: _id -> document
    session,             \* per _id: the background screening task
    bcastLog,            \* the calls of sse_manager.broadcast_notification
    active_connections,  \* SSEConnectionManager.active_connections
    queue,               \* per stream request: its asyncio.Queue
    stream,              \* per stream request: where the endpoint stands
    received,            \* per stream request: what its client was sent
    disconnects          \* per stream request: the calls of disconnect

vars == <<reqLog, store, session, bcastLog, active_connections, queue,
          stream, received, disconnects>>

\* what is recorded about the hub's streams (in SpecHub only)
observers == <<received, disconnects>>

Ids == 1..MaxRequests
Chans == 1..MaxStreams

\* poll_resp_obj = None
NoObject == [isNone |-> TRUE, screening_status |-> "", screen_results |-> <<>>]

NoPayload == [notif |-> "absent", nvi |-> "absent", vi |-> "absent"]

\* pc: "none" (no task), "launched", "registering" (awaiting client.post),
\* "polling" (before client.get of attempt poll_count + 1), "done".
\* regCalls, polls, updates count the calls made; term names how the task
\* ended and found whether the wrapper's find_one gave the document.
NoSession ==
    [pc |-> "none", payload |-> NoPayload, imo |-> "", transaction_id |-> "",
     poll_count |-> 0, screening_status |-> "", poll_resp_obj |-> NoObject,
     slept |-> 0, regCalls |-> 0, polls |-> 0, updates |-> 0, term |-> "",
     found |-> FALSE]

Init ==
    /\ reqLog = <<>>
    /\ store = <<>>
    /\ session = [i \in Ids |-> NoSession]
    /\ bcastLog = <<>>
    /\ active_connections = {}
    /\ queue = [c \in Chans |-> <<>>]
    /\ stream = [c \in Chans |-> "new"]
    /\ received = [c \in Chans |-> <<>>]
    /\ disconnects = [c \in Chans |-> 0]


(***************************************************************************)
(* SSEConnectionManager.                                                   *)
(***************************************************************************)
\* html.escape(c) for one character
EscapeChar(c) ==
    CASE c = "&"  -> <<"&", "a", "m", "p", ";">>
      [] c = "<"  -> <<"&", "l", "t", ";">>
      [] c = ">"  -> <<"&", "g", "t", ";">>
      [] c = "\"" -> <<"&", "q", "u", "o", "t", ";">>
      [] c = "'"  -> <<"&", "#", "x", "2", "7", ";">>
      [] OTHER    -> <<c>>

RECURSIVE HtmlEscape(_)
HtmlEscape(s) ==
    IF s = <<>> THEN <<>> ELSE EscapeChar(Head(s)) \o HtmlEscape(Tail(s))

\* sanitize_value without its descent into dicts and lists
SanitizeValue_Shallow(v) ==
    IF v.tag = "str" THEN PyStr(HtmlEscape(v.s)) ELSE v

\* lines 77-85: sanitize_value
RECURSIVE SanitizeValue(_)
SanitizeValue(v) ==
    CASE v.tag = "str"  -> PyStr(HtmlEscape(v.s))
      [] v.tag = "dict" ->
             PyDict([k \in DOMAIN v.fields |-> SanitizeValue(v.fields[k])])
      [] v.tag = "list" ->
             PyList([i \in 1..Len(v.items) |-> SanitizeValue(v.items[i])])
      [] OTHER          -> v

\* sanitize_value on a stored document (a dict): its values that come from
\* the request.  The other values hold no character that html.escape
\* changes: the receipt time, and the screening result, whose strings are
\* the provider's status words and transaction ids of PollInputs.
SanitizeDoc(doc) ==
    [doc EXCEPT !.custom_reference = SanitizeValue(@),
                !.user_id = SanitizeValue(@),
                !.auto_screen = SanitizeValue(@)]

\* lines 75-87
SanitizeNotification(data) ==
    [data EXCEPT !.notification_id = SanitizeValue(@),
                 !.user_id = SanitizeValue(@), !.data = SanitizeDoc(@)]

\* lines 89-96: "data: <json>\n\n"
FormatSSEMessage(data) == [field |-> "data", json |-> data]

\* line 103
HeartbeatMessage ==
    [field |-> "data", json |-> [type |-> "heartbeat", timestamp |-> "utcnow"]]

\* a queue that takes one message more than maxsize
QueueFull_Above(q) == Len(q) > maxsize

\* asyncio.Queue.put_nowait raises QueueFull
QueueFull(q) == Len(q) >= maxsize

\* what goes wrong inside the hub during one call: sanitize tells that
\* _sanitize_notification raises, broken holds the connections whose
\* put_nowait raises something other than QueueFull
NoFault == [sanitize |-> FALSE, broken |-> {}]

\* every connection dropped when one put_nowait raises
Deliver_DropsAll(conns, qs, message, broken) ==
    LET failed == {c \in conns : QueueFull(qs[c]) \/ c \in broken}
    IN  IF failed = {}
        THEN [active |-> conns,
              queue |-> [c \in DOMAIN qs |->
                           IF c \in conns THEN Append(qs[c], message)
                           ELSE qs[c]]]
        ELSE [active |-> {}, queue |-> qs]

\* the loop of line 64 left at the first put_nowait that raises
Deliver_StopsAtFailure(conns, qs, message, broken) ==
    LET failed == {c \in conns : QueueFull(qs[c]) \/ c \in broken}
    IN  IF failed = {}
        THEN [active |-> conns,
              queue |-> [c \in DOMAIN qs |->
                           IF c \in conns THEN Append(qs[c], message)
                           ELSE qs[c]]]
        ELSE [active |-> conns \ failed, queue |-> qs]

\* lines 64-73 and 106-111 one iteration after the other.  copy is what is
\* left of connections_copy, active the live set and qs the queues at this
\* point of the loop; done lists the put_nowait calls that succeeded so far,
\* each with whether its connection was in the live set at that instant.
RECURSIVE DeliverLoop(_, _, _, _, _, _)
DeliverLoop(copy, active, qs, message, broken, done) ==
    IF copy = <<>>
    THEN [active |-> active, queue |-> qs, done |-> done]
    ELSE LET connection_queue == Head(copy)
         IN  IF QueueFull(qs[connection_queue])
                  \/ connection_queue \in broken
             THEN DeliverLoop(Tail(copy), active \ {connection_queue}, qs,
                              message, broken, done)
             ELSE DeliverLoop(Tail(copy), active,
                              [qs EXCEPT ![connection_queue] =
                                             Append(@, message)],
                              message, broken,
                              Append(done, [to |-> connection_queue,
                                            live |-> connection_queue
                                                       \in active]))

\* the loop run over every queue there is, live or not
Deliver_EveryQueue(conns, qs, message, broken) ==
    LET failed == {c \in DOMAIN qs : QueueFull(qs[c]) \/ c \in broken}
    IN  [active |-> conns \ failed,
         queue |-> [c \in DOMAIN qs |->
                      IF c \notin failed THEN Append(qs[c], message)
                      ELSE qs[c]]]

\* lines 64-73 and 106-111: put_nowait to every connection of the copy, and
\* disconnect of the ones whose put_nowait raised
Deliver(conns, qs, message, broken) ==
    LET failed == {c \in conns : QueueFull(qs[c]) \/ c \in broken}
    IN  [active |-> conns \ failed,
         queue |-> [c \in DOMAIN qs |->
                      IF c \in conns \ failed THEN Append(qs[c], message)
                      ELSE qs[c]]]

\* lines 49-73
BroadcastNotification(conns, qs, data, fault) ==
    IF conns = {}
    THEN [raised |-> FALSE, active |-> conns, queue |-> qs]
    ELSE IF fault.sanitize
    THEN [raised |-> TRUE, active |-> conns, queue |-> qs]
    ELSE LET message == FormatSSEMessage(SanitizeNotification(data))
             d == Deliver(conns, qs, message, fault.broken)
         IN  [raised |-> FALSE, active |-> d.active, queue |-> d.queue]

Digits == <<"0", "1", "2", "3", "4", "5", "6", "7", "8", "9">>

\* line 210: str(inserted_id), the text of the identifier
Str(inserted_id) == PyStr(<<Digits[inserted_id + 1]>>)

\* the envelope with the identifier read from the document handed over,
\* which has none in this model: str(None)
BroadcastData_IdOfDocument(doc, inserted_id) ==
    [type |-> "zone_port_notification",
     notification_id |-> PyStr(<<"N", "o", "n", "e">>),
     timestamp |-> "utcnow", user_id |-> doc.user_id, data |-> doc]

\* lines 208-214
BroadcastData(doc, inserted_id) ==
    [type |-> "zone_port_notification", notification_id |-> Str(inserted_id),
     timestamp |-> "utcnow", user_id |-> doc.user_id, data |-> doc]

\* broadcast_notification_to_sse without its try/except
BroadcastSurfaces_Raised(raised) == raised

\* lines 206, 220-221: does an exception of the hub leave
\* broadcast_notification_to_sse
BroadcastSurfaces(raised) == FALSE

\* lines 204-221
BroadcastNotificationToSSE(conns, qs, log, doc, inserted_id, fault) ==
    LET data == BroadcastData(doc, inserted_id)
        b == BroadcastNotification(conns, qs, data, fault)
    IN  [raised |-> BroadcastSurfaces(b.raised), active |-> b.active,
         queue |-> b.queue, log |-> Append(log, data),
         hub |-> IF b.raised THEN "raised"
                 ELSE IF b.active # conns THEN "evicted" ELSE "returned"]


(***************************************************************************)
(* Webhook handlers.                                                       *)
(***************************************************************************)
U1true  == PyStr(<<"U", "1", "|", "t", "r", "u", "e">>)
U1false == PyStr(<<"U", "1", "|", "f", "a", "l", "s", "e">>)
U1      == PyStr(<<"U", "1">>)

\* custom_reference values of the requests
RefInputs == {None, U1true, U1false, U1, PyInt(5)}

ImoAtNotification == [notif |-> "dict", nvi |-> "9074729", vi |-> "absent"]
ImoAtTop          == [notif |-> "absent", nvi |-> "absent", vi |-> "9074729"]
ImoNowhere        == [notif |-> "dict", nvi |-> "noimo", vi |-> "absent"]
ImoUnreadable     == [notif |-> "bad", nvi |-> "absent", vi |-> "absent"]

\* payloads of the requests
PayloadInputs == {ImoAtNotification, ImoAtTop, ImoNowhere, ImoUnreadable}

\* the requests of the zone-port webhook: every payload with a reference
\* that asks for screening, every reference with one payload
ZonePortInputs ==
    ({U1true} \X PayloadInputs) \cup (RefInputs \X {ImoAtNotification})

\* the requests of the vessel webhook
VesselInputs == {None, U1} \X {ImoAtNotification}

Response(code, id) == [code |-> code, notification_id |-> id]

\* insert: "ok", "failed" or "not_attempted"; hub: how the handler's call of
\* the hub went ("not_called", "returned", "evicted" a connection, "raised")
Request(kind, insert, hub, resp) ==
    [kind |-> kind, insert |-> insert, hub |-> hub, resp |-> resp]

\* insert_one in a try of its own that only logs
InsertAborts_Never(insertOk) == FALSE

\* the test of the insert's outcome inverted
InsertAborts_Inverted(insertOk) == insertOk

\* line 387 inside the try of line 364: an exception of insert_one leaves
\* the handler through line 405
InsertAborts(insertOk) == ~insertOk

\* line 390 as "is not None"
WantsScreening_NotNone(doc) == doc.auto_screen # None

\* line 390 always taken
WantsScreening_Always(doc) == TRUE

\* line 390
WantsScreening(doc) == Truthy(doc.auto_screen)

\* the else of line 396 taken whatever auto_screen is
BroadcastsAtIngest_Always(doc) == TRUE

\* lines 396-399: the else branch of line 390
BroadcastsAtIngest(doc) == ~WantsScreening(doc)

\* line 393: the task gets notification_data
Launched(doc) == [NoSession EXCEPT !.pc = "launched", !.payload = doc.payload]

\* lines 362-410
ZonePortWebhook(custom_ref, payload, insertOk, bg, fault) ==
    /\ Len(reqLog) < MaxRequests
    /\ LET id == Len(reqLog) + 1
           d == DeriveZonePort(custom_ref)
           doc == ZonePortDoc(custom_ref, payload)
           inserted == IF insertOk THEN "ok" ELSE "failed"
           st == IF insertOk THEN store @@ (id :> doc) ELSE store
           b == BroadcastNotificationToSSE(active_connections, queue,
                                           bcastLog, doc, id, fault)
           Failure(insert) ==
               Request("ZonePortEvent", insert, "not_called", Response(500, 0))
       IN  IF d.raised
           THEN /\ reqLog' = Append(reqLog, Failure("not_attempted"))
                /\ UNCHANGED <<store, session, bcastLog, active_connections,
                               queue>>
           ELSE IF InsertAborts(insertOk)
           THEN /\ reqLog' = Append(reqLog, Failure("failed"))
                /\ UNCHANGED <<store, session, bcastLog, active_connections,
                               queue>>
           ELSE /\ store' = st
                /\ session' = IF WantsScreening(doc) /\ bg
                              THEN [session EXCEPT ![id] = Launched(doc)]
                              ELSE session
                /\ IF BroadcastsAtIngest(doc)
                   THEN /\ bcastLog' = b.log
                        /\ active_connections' = b.active
                        /\ queue' = b.queue
                        /\ reqLog' = Append(reqLog,
                               Request("ZonePortEvent", inserted, b.hub,
                                       IF b.raised THEN Response(500, 0)
                                       ELSE Response(200, id)))
                   ELSE /\ reqLog' = Append(reqLog,
                               Request("ZonePortEvent", inserted, "not_called",
                                       Response(200, id)))
                        /\ UNCHANGED <<bcastLog, active_connections, queue>>
    /\ UNCHANGED stream

\* lines 413-436
VesselWebhook(custom_ref, payload, insertOk) ==
    /\ Len(reqLog) < MaxRequests
    /\ LET id == Len(reqLog) + 1
           doc == VesselDoc(custom_ref, payload)
           inserted == IF insertOk THEN "ok" ELSE "failed"
       IN  IF InsertAborts(insertOk)
           THEN /\ reqLog' = Append(reqLog,
                       Request("VesselEvent", "failed", "not_called",
                               Response(500, 0)))
                /\ UNCHANGED store
           ELSE /\ store' = IF insertOk THEN store @@ (id :> doc) ELSE store
                /\ reqLog' = Append(reqLog,
                       Request("VesselEvent", inserted, "not_called",
                               Response(200, id)))
    /\ UNCHANGED <<session, bcastLog, active_connections, queue, stream>>

(***************************************************************************)
(* The screening task.                                                     *)
(***************************************************************************)
Entry(check, status) == [dict |-> TRUE, check |-> check, status |-> status]
NotADict == [dict |-> FALSE, check |-> "", status |-> ""]
Object(status, results) ==
    [isNone |-> FALSE, screening_status |-> status, screen_results |-> results]

\* what the provider answers to a poll: "error" (transport, HTTP status or
\* decoding), "empty" (no object) or the first object
PollError == [kind |-> "error", object |-> NoObject]
PollEmpty == [kind |-> "empty", object |-> NoObject]
PollObject(o) == [kind |-> "object", object |-> o]

PollInputs ==
    {PollError, PollEmpty,
     PollObject(Object("PENDING", <<>>)),
     PollObject(Object("missing", <<>>)),
     PollObject(Object("CLEAR", <<Entry("SANCTIONS", "NONE")>>)),
     PollObject(Object("CLEAR", <<NotADict>>))}

\* what the provider answers to the registration
RegisterInputs == {"error", "no_transaction_id", "T1"}

\* lines 293-301 with "<=" for "<"
PollInterval_Inclusive(poll_count) ==
    IF poll_count <= 20 THEN 3 ELSE IF poll_count <= 32 THEN 5 ELSE 10

\* lines 293-301
PollInterval(poll_count) ==
    IF poll_count < 20 THEN 3 ELSE IF poll_count < 32 THEN 5 ELSE 10

\* line 311: poll_resp_obj.get("screening_status", "PENDING")
StatusOf(o) ==
    IF o.screening_status = "missing" THEN "PENDING" ELSE o.screening_status

\* line 320 without the status: "if not poll_resp_obj"
PollingIncomplete_ObjectOnly(poll_resp_obj, screening_status) ==
    poll_resp_obj.isNone

\* line 320 with "and" for "or"
PollingIncomplete_Both(poll_resp_obj, screening_status) ==
    poll_resp_obj.isNone /\ screening_status = "PENDING"

\* line 320 never taken
PollingIncomplete_Never(poll_resp_obj, screening_status) == FALSE

\* line 320
PollingIncomplete(poll_resp_obj, screening_status) ==
    poll_resp_obj.isNone \/ screening_status = "PENDING"

\* get_status returning the last entry of the tag
GetStatus_Last(screen_results, check) ==
    LET hits == {i \in 1..Len(screen_results) :
                    screen_results[i].check = check}
    IN  IF \E i \in 1..Len(screen_results) : ~screen_results[i].dict
        THEN [raised |-> TRUE, status |-> "null"]
        ELSE IF hits = {} THEN [raised |-> FALSE, status |-> "null"]
        ELSE [raised |-> FALSE,
              status |-> screen_results[CHOOSE i \in hits :
                                           \A j \in hits : j <= i].status]

\* lines 326-330: get_status; "null" is None
RECURSIVE GetStatus(_, _)
GetStatus(screen_results, check) ==
    IF screen_results = <<>> THEN [raised |-> FALSE, status |-> "null"]
    ELSE IF ~Head(screen_results).dict THEN [raised |-> TRUE, status |-> "null"]
    ELSE IF Head(screen_results).check = check
    THEN [raised |-> FALSE, status |-> Head(screen_results).status]
    ELSE GetStatus(Tail(screen_results), check)

\* lines 324-338
ScreeningResults(transaction_id, screening_status, poll_resp_obj) ==
    LET sr == poll_resp_obj.screen_results
        c1 == GetStatus(sr, "COMPANY_SANCTIONS")
        c2 == GetStatus(sr, "SANCTIONS")
        c3 == GetStatus(sr, "SHIP_MOVE_HIST")
        c4 == GetStatus(sr, "PSC_HISTORY")
    IN  [raised |-> c1.raised \/ c2.raised \/ c3.raised \/ c4.raised,
         value |-> [present |-> TRUE, transaction_id |-> transaction_id,
                    overall_severity |-> screening_status,
                    company_sanctions |-> c1.status,
                    ship_sanctions |-> c2.status,
                    ship_movement |-> c3.status, psc |-> c4.status]]


\* the faults of a call of the hub beside the pipeline: the hub reaches
\* _sanitize_notification only with a connection, and put_nowait of an
\* asyncio.Queue raises nothing but QueueFull
FaultInputs ==
    IF active_connections = {} THEN {NoFault}
    ELSE {[sanitize |-> r, broken |-> {}] : r \in BOOLEAN}

\* what find_one of the wrapper gives: the document, None or an exception
FindInputs == {"found", "not_found", "raises"}

\* lines 230-231
WrapperBroadcasts(find) == find = "found"

\* the wrapper broadcasting the document as it was before the task ran
Return_BroadcastsStale(id, sess, st) ==
    /\ store' = st
    /\ \E find \in FindInputs :
        /\ session' = [session EXCEPT ![id] =
                          [sess EXCEPT !.found = (find = "found")]]
        /\ IF WrapperBroadcasts(find)
           THEN \E fault \in FaultInputs :
                LET b == BroadcastNotificationToSSE(active_connections, queue,
                                                    bcastLog, store[id], id,
                                                    fault)
                IN  /\ bcastLog' = b.log
                    /\ active_connections' = b.active
                    /\ queue' = b.queue
           ELSE UNCHANGED <<bcastLog, active_connections, queue>>

\* lines 226-238: the task's function has returned; the wrapper reads the
\* document again and broadcasts it.  sess is the ended session, st the
\* store it leaves.
Return(id, sess, st) ==
    /\ store' = st
    /\ \E find \in FindInputs :
        /\ session' = [session EXCEPT ![id] =
                          [sess EXCEPT !.found = (find = "found")]]
        /\ IF WrapperBroadcasts(find)
           THEN \E fault \in FaultInputs :
                LET b == BroadcastNotificationToSSE(active_connections, queue,
                                                    bcastLog, st[id], id, fault)
                IN  /\ bcastLog' = b.log
                    /\ active_connections' = b.active
                    /\ queue' = b.queue
           ELSE UNCHANGED <<bcastLog, active_connections, queue>>

\* the function returns: its locals are gone, what it did is kept
Ended(sess, term) ==
    [sess EXCEPT !.pc = "done", !.term = term, !.poll_resp_obj = NoObject]

\* lines 240-268: configuration, the vessel identifier, and the
\* registration request
ScreenStart(id, configOk) ==
    /\ session[id].pc = "launched"
    /\ LET s == session[id]
           e == ExtractImo(s.payload)
       IN  IF ~configOk
           THEN Return(id, Ended(s, "ConfigMissing"), store)
           ELSE IF e.raised
           THEN Return(id, Ended(s, "ExtractFailed"), store)
           ELSE /\ session' = [session EXCEPT ![id] =
                                 [s EXCEPT !.pc = "registering", !.imo = e.imo,
                                           !.regCalls = @ + 1]]
                /\ UNCHANGED <<store, bcastLog, active_connections, queue>>
    /\ UNCHANGED <<reqLog, stream>>

\* lines 268-282: the answer to the registration
RegisterResponse(id, answer) ==
    /\ session[id].pc = "registering"
    /\ LET s == session[id]
       IN  IF answer = "error"
           THEN Return(id, Ended(s, "RegisterFailed"), store)
           ELSE IF answer = "no_transaction_id"
           THEN Return(id, Ended(s, "NoTransactionId"), store)
           ELSE /\ session' = [session EXCEPT ![id] =
                                 [s EXCEPT !.pc = "polling",
                                           !.transaction_id = answer,
                                           !.screening_status = "PENDING",
                                           !.poll_resp_obj = NoObject]]
                /\ UNCHANGED <<store, bcastLog, active_connections, queue>>
    /\ UNCHANGED <<reqLog, stream>>

\* the update of line 340 without its filter: every document of the
\* collection gets the result
Finalize_UpdatesAll(id, s, exhausted, updateOk) ==
    LET r == ScreeningResults(s.transaction_id, s.screening_status,
                              s.poll_resp_obj)
    IN  IF PollingIncomplete(s.poll_resp_obj, s.screening_status)
        THEN Return(id, Ended(s, IF exhausted THEN "TimedOut" ELSE "Incomplete"),
                    store)
        ELSE IF r.raised \/ ~updateOk
        THEN Return(id, Ended(s, IF exhausted THEN "TimedOut"
                                 ELSE "FinalizeError"),
                    store)
        ELSE Return(id,
                    [Ended(s, IF exhausted THEN "TimedOut" ELSE "Resolved")
                       EXCEPT !.updates = @ + 1],
                    [k \in DOMAIN store |->
                       [store[k] EXCEPT !.screening_results = r.value]])

\* lines 320-344, then the wrapper.  s is the session when the loop is left,
\* exhausted tells that it was left without a break.
Finalize(id, s, exhausted, updateOk) ==
    LET r == ScreeningResults(s.transaction_id, s.screening_status,
                              s.poll_resp_obj)
    IN  IF PollingIncomplete(s.poll_resp_obj, s.screening_status)
        THEN Return(id, Ended(s, IF exhausted THEN "TimedOut" ELSE "Incomplete"),
                    store)
        ELSE IF r.raised \/ ~updateOk
        THEN Return(id, Ended(s, IF exhausted THEN "TimedOut"
                                 ELSE "FinalizeError"),
                    store)
        ELSE Return(id,
                    [Ended(s, IF exhausted THEN "TimedOut" ELSE "Resolved")
                       EXCEPT !.updates = @ + 1],
                    [store EXCEPT ![id].screening_results = r.value])

\* the loop started again by an attempt that errors
PollAttemptOf_RestartsOnError(attempts, id, answer, updateOk) ==
    /\ session[id].pc = "polling"
    /\ session[id].poll_count < attempts
    /\ LET s == [session[id] EXCEPT !.polls = @ + 1]
           got == IF answer.kind = "object"
                  THEN [s EXCEPT !.poll_resp_obj = answer.object,
                                 !.screening_status = StatusOf(answer.object)]
                  ELSE s
           slept == [got EXCEPT !.slept = @ + PollInterval(s.poll_count),
                                !.poll_count = @ + 1]
       IN  IF answer.kind = "error"
           THEN /\ session' = [session EXCEPT ![id] =
                                 [@ EXCEPT !.poll_count = 0, !.polls = 0,
                                           !.slept = 0]]
                /\ UNCHANGED <<store, bcastLog, active_connections, queue>>
           ELSE IF answer.kind = "object" /\ got.screening_status # "PENDING"
           THEN Finalize(id, got, FALSE, updateOk)
           ELSE IF slept.poll_count = attempts
           THEN Finalize(id, slept, TRUE, updateOk)
           ELSE /\ session' = [session EXCEPT ![id] = slept]
                /\ UNCHANGED <<store, bcastLog, active_connections, queue>>
    /\ UNCHANGED <<reqLog, stream>>

\* lines 291-319 for range(attempts): one attempt of the loop (client.get,
\* its answer, the sleep), and what follows the loop when this attempt
\* leaves it
PollAttemptOf(attempts, id, answer, updateOk) ==
    /\ session[id].pc = "polling"
    /\ session[id].poll_count < attempts
    /\ LET s == [session[id] EXCEPT !.polls = @ + 1]
           got == IF answer.kind = "object"
                  THEN [s EXCEPT !.poll_resp_obj = answer.object,
                                 !.screening_status = StatusOf(answer.object)]
                  ELSE s
           slept == [got EXCEPT !.slept = @ + PollInterval(s.poll_count),
                                !.poll_count = @ + 1]
       IN  IF answer.kind = "object" /\ got.screening_status # "PENDING"
           THEN Finalize(id, got, FALSE, updateOk)
           ELSE IF slept.poll_count = attempts
           THEN Finalize(id, slept, TRUE, updateOk)
           ELSE /\ session' = [session EXCEPT ![id] = slept]
                /\ UNCHANGED <<store, bcastLog, active_connections, queue>>
    /\ UNCHANGED <<reqLog, stream>>

\* lines 289-319 with the loop scaled down to total_attempts
PollAttempt(id, answer, updateOk) ==
    PollAttemptOf(total_attempts, id, answer, updateOk)


(***************************************************************************)
(* The stream endpoint and the heartbeat task.                             *)
(***************************************************************************)
\* what check_user_logged_in finds
AuthInputs == {"logged_in", "not_logged_in", "unknown_user", "error"}

\* check_user_logged_in that raises for an unknown user only
CheckUserLoggedIn_KnownUser(auth) == auth # "unknown_user"

\* lines 130-147: returns only for a 200 answer with is_logged_in true
CheckUserLoggedIn(auth) == auth = "logged_in"

\* line 35 with ">" for ">="
Connect_Above(conns, c) ==
    IF Cardinality(conns) > max_connections
    THEN [accepted |-> FALSE, active |-> conns]
    ELSE [accepted |-> TRUE, active |-> conns \cup {c}]

\* lines 32-41
Connect(conns, c) ==
    IF Cardinality(conns) >= max_connections
    THEN [accepted |-> FALSE, active |-> conns]
    ELSE [accepted |-> TRUE, active |-> conns \cup {c}]

\* disconnect that leaves the set as it is
Disconnect_Keeps(conns, c) == conns

\* disconnect that empties the set when the queue is not in it
Disconnect_ClearsOnUnknown(conns, c) ==
    IF c \in conns THEN conns \ {c} ELSE {}

\* lines 43-47
Disconnect(conns, c) == conns \ {c}

\* lines 569-584: the request up to the StreamingResponse; c is the ordinal
\* of the request.  "unauthorized": check_user_logged_in raised,
\* "rejected": the 503 of line 581
ZonePortEventsStream(c, auth) ==
    /\ stream[c] = "new"
    /\ \A b \in 1..(c - 1) : stream[b] # "new"
    /\ LET r == Connect(active_connections, c)
       IN  IF ~CheckUserLoggedIn(auth)
           THEN /\ stream' = [stream EXCEPT ![c] = "unauthorized"]
                /\ UNCHANGED active_connections
           ELSE /\ active_connections' = r.active
                /\ stream' = [stream EXCEPT ![c] =
                                IF r.accepted THEN "open" ELSE "rejected"]
    /\ UNCHANGED <<reqLog, store, session, bcastLog, queue>>

\* lines 588-598: the generator yields the confirmation
EventGeneratorStart(c) ==
    /\ stream[c] = "open"
    /\ stream' = [stream EXCEPT ![c] = "loop"]
    /\ UNCHANGED <<reqLog, store, session, bcastLog, active_connections,
                   queue>>

\* connection_queue.get() taking the newest message
QueueGet_Newest(q) == [item |-> q[Len(q)], rest |-> SubSeq(q, 1, Len(q) - 1)]

\* line 605: connection_queue.get() on a queue that holds a message
QueueGet(q) == [item |-> Head(q), rest |-> Tail(q)]

\* lines 604-608: a message of the queue is yielded
EventGeneratorGet(c) ==
    /\ stream[c] = "loop"
    /\ queue[c] # <<>>
    /\ queue' = [queue EXCEPT ![c] = QueueGet(@).rest]
    /\ UNCHANGED <<reqLog, store, session, bcastLog, active_connections,
                   stream>>

\* connection_queue.get() awaited without wait_for: the stream ends only
\* when the client goes away
EventGeneratorClose_NoTimeout(c, timeout) ==
    /\ stream[c] = "loop"
    /\ ~timeout
    /\ active_connections' = Disconnect(active_connections, c)
    /\ stream' = [stream EXCEPT ![c] = "closed"]
    /\ UNCHANGED <<reqLog, store, session, bcastLog, queue>>

\* lines 610-623: the wait times out, or the client goes away (cancelled);
\* the finally block disconnects
EventGeneratorClose(c, timeout) ==
    /\ stream[c] = "loop"
    /\ timeout => queue[c] = <<>>
    /\ active_connections' = Disconnect(active_connections, c)
    /\ stream' = [stream EXCEPT ![c] = "closed"]
    /\ UNCHANGED <<reqLog, store, session, bcastLog, queue>>

\* send_heartbeat without the disconnect of line 111
SendHeartbeat_KeepsFailed(broken) ==
    /\ active_connections # {}
    /\ LET d == Deliver(active_connections, queue, HeartbeatMessage, broken)
       IN  /\ active_connections' = active_connections
           /\ queue' = d.queue
    /\ UNCHANGED <<reqLog, store, session, bcastLog, stream>>

\* lines 98-111, called by heartbeat_task (lines 117-125)
SendHeartbeat(broken) ==
    /\ active_connections # {}
    /\ LET d == Deliver(active_connections, queue, HeartbeatMessage, broken)
       IN  /\ active_connections' = d.active
           /\ queue' = d.queue
    /\ UNCHANGED <<reqLog, store, session, bcastLog, stream>>

(***************************************************************************)
(* The specification.                                                      *)
(***************************************************************************)
\* background_tasks is read only when a stored event asks for screening
BackgroundInputs(custom_ref, insertOk) ==
    IF insertOk /\ DeriveZonePort(custom_ref).auto_screen = PyBool(TRUE)
    THEN BOOLEAN ELSE {TRUE}

HandleZonePortWebhook ==
    /\ \E in \in ZonePortInputs, insertOk \in BOOLEAN :
         \E bg \in BackgroundInputs(in[1], insertOk) :
             \E fault \in (IF WantsScreening(ZonePortDoc(in[1], in[2]))
                               \/ ~insertOk
                            THEN {NoFault} ELSE FaultInputs) :
                 ZonePortWebhook(in[1], in[2], insertOk, bg, fault)
    /\ UNCHANGED observers

HandleVesselWebhook ==
    /\ \E in \in VesselInputs, insertOk \in BOOLEAN :
         VesselWebhook(in[1], in[2], insertOk)
    /\ UNCHANGED observers

Screening ==
    /\ \E id \in Ids :
         \/ \E configOk \in BOOLEAN : ScreenStart(id, configOk)
         \/ \E answer \in RegisterInputs :
                RegisterResponse(id, answer)
         \/ \E answer \in PollInputs :
                \E updateOk \in (IF answer.kind = "object" THEN BOOLEAN
                                  ELSE {TRUE}) :
                    PollAttempt(id, answer, updateOk)
    /\ UNCHANGED observers

\* the streams beside the pipeline; what their clients are sent is not
\* recorded.  Heartbeats are sent in SpecHub.
Streaming ==
    /\ \E c \in 1..PipelineStreams :
         \/ \E auth \in AuthInputs : ZonePortEventsStream(c, auth)
         \/ EventGeneratorStart(c)
         \/ EventGeneratorGet(c)
         \/ \E timeout \in BOOLEAN : EventGeneratorClose(c, timeout)
    /\ UNCHANGED observers

Next ==
    \/ HandleZonePortWebhook
    \/ HandleVesselWebhook
    \/ Screening
    \/ Streaming

Spec == Init /\ [][Next]_vars


(***************************************************************************)
(* Ingestion alone, over many values of custom_reference.                  *)
(***************************************************************************)
MaxRefLen == 3

\* every string of at most MaxRefLen characters over "U", "|" and " "
ShortRefs ==
    UNION {[1..n -> {"U", "|", " "}] : n \in 0..MaxRefLen}

LongRefs ==
    {<<" ", "U", "1", " ", "|", " ", "T", "R", "U", "E", " ">>,
     <<"U", "1", "|", "T", "r", "u", "E">>,
     <<"U", "1", "|", "\t", "t", "r", "u", "e", "\t">>,
     <<"U", "1", "|", "t", "r", "u", "e", "s">>,
     <<"U", "1", "|", "t", " ", "r", "u", "e">>,
     <<"a", "|", "b", "|", "t", "r", "u", "e">>,
     <<"U", "1", "|", "t", "r", "u", "e", "|", "x">>,
     <<"|", "t", "r", "u", "e">>,
     <<"t", "r", "u", "e", "|", "U", "1">>,
     <<"<", "U", ">", "|", "t", "r", "u", "e">>}

RefValues ==
    RefInputs \cup {PyStr(s) : s \in ShortRefs \cup LongRefs}
      \cup {PyInt(0), PyBool(TRUE), PyBool(FALSE), PyList(<<>>),
            PyList(<<PyStr(<<"|">>)>>), PyList(<<PyStr(<<"U">>)>>),
            PyDict([k \in {"|"} |-> PyInt(0)]),
            PyDict([k \in {"U"} |-> PyInt(0)])}

IngestZonePort ==
    /\ \E custom_ref \in RefValues, insertOk \in BOOLEAN,
          fault \in FaultInputs :
         ZonePortWebhook(custom_ref, ImoAtNotification, insertOk, TRUE, fault)
    /\ UNCHANGED observers

IngestVessel ==
    /\ \E custom_ref \in RefValues, insertOk \in BOOLEAN :
         VesselWebhook(custom_ref, ImoAtNotification, insertOk)
    /\ UNCHANGED observers

NextIngest == IngestZonePort \/ IngestVessel

SpecIngest == Init /\ [][NextIngest]_vars


(***************************************************************************)
(* The hub with several streams.  Notifications come from zone-port        *)
(* webhooks that ask for no screening; what every client is sent and the   *)
(* calls of disconnect are recorded.                                       *)
(***************************************************************************)
\* line 592-598: the connection confirmation
InitialMessage ==
    [field |-> "data",
     json |-> [type |-> "connection_established", timestamp |-> "utcnow"]]

\* lines 598 and 608: yield
Yield(c, item) == received' = [received EXCEPT ![c] = Append(@, item)]

\* lines 70, 73, 111 and 622: the calls of disconnect of a step, for the
\* connections in called
Disconnecting(called) ==
    disconnects' = [c \in Chans |->
                      IF c \in called THEN disconnects[c] + 1
                      ELSE disconnects[c]]

\* the faults of a call of the hub: _sanitize_notification raises, or
\* put_nowait raises for some connections
HubFaultInputs ==
    IF active_connections = {} THEN {NoFault}
    ELSE {[sanitize |-> TRUE, broken |-> {}]}
           \cup {[sanitize |-> FALSE, broken |-> B] :
                    B \in SUBSET active_connections}

\* custom_reference values of the notifications
HubRefs == {PyStr(<<"<", "U", ">", "|", "n", "o">>)}

HubPublish ==
    /\ \E custom_ref \in HubRefs, fault \in HubFaultInputs :
         ZonePortWebhook(custom_ref, ImoAtNotification, TRUE, TRUE, fault)
    /\ Disconnecting(active_connections \ active_connections')
    /\ UNCHANGED received

HeartbeatsIn(s) ==
    Cardinality({i \in 1..Len(s) : s[i] = HeartbeatMessage})

HubHeartbeat ==
    /\ \A c \in Chans :
         HeartbeatsIn(received[c]) + HeartbeatsIn(queue[c]) < MaxHeartbeats
    /\ \E broken \in SUBSET active_connections : SendHeartbeat(broken)
    /\ Disconnecting(active_connections \ active_connections')
    /\ UNCHANGED received

\* lines 588-598 with what is yielded
StreamStart(c) ==
    /\ EventGeneratorStart(c)
    /\ Yield(c, InitialMessage)
    /\ UNCHANGED disconnects

\* lines 604-608 with what is yielded
StreamGet(c) ==
    /\ EventGeneratorGet(c)
    /\ Yield(c, QueueGet(queue[c]).item)
    /\ UNCHANGED disconnects

\* lines 610-623 with the call of disconnect
StreamClose(c, timeout) ==
    /\ EventGeneratorClose(c, timeout)
    /\ Disconnecting({c})
    /\ UNCHANGED received

HubStreaming ==
    \E c \in Chans :
        \/ /\ \E auth \in AuthInputs : ZonePortEventsStream(c, auth)
           /\ UNCHANGED observers
        \/ StreamStart(c)
        \/ StreamGet(c)
        \/ \E timeout \in BOOLEAN : StreamClose(c, timeout)

NextHub == HubPublish \/ HubHeartbeat \/ HubStreaming

SpecHub == Init /\ [][NextHub]_vars

(***************************************************************************)
(* The hub with fewer streams, and the steps the code makes sure of.       *)
(***************************************************************************)
DropStreams == 2

DropStreaming ==
    \E c \in 1..DropStreams :
        \/ /\ \E auth \in AuthInputs : ZonePortEventsStream(c, auth)
           /\ UNCHANGED observers
        \/ StreamStart(c)
        \/ StreamGet(c)
        \/ \E timeout \in BOOLEAN : StreamClose(c, timeout)

NextDrop == HubPublish \/ HubHeartbeat \/ DropStreaming

SpecDrop == Init /\ [][NextDrop]_vars

\* the next step of the generator of a stream whose queue is not live, the
\* client staying: it starts, yields a queued message, or its wait times
\* out
DroppedStreamStep(c) ==
    /\ c \notin active_connections
    /\ \/ StreamStart(c)
       \/ StreamGet(c)
       \/ StreamClose(c, TRUE)

\* The generator of a stream whose queue is not live takes its next step in
\* the end: the response is iterated, a yield returns when the client has
\* read, and wait_for of line 604 returns a message or raises TimeoutError
\* after connection_timeout seconds.  Nothing is assumed of the clients
\* going away, of the streams whose queue is live, nor of the webhooks and
\* heartbeats.
SpecDropFair ==
    SpecDrop /\ \A c \in 1..DropStreams : WF_vars(DroppedStreamStep(c))


(***************************************************************************)
(* The screening task of one record, over many answers of the provider.    *)
(***************************************************************************)
\* further first objects of a poll answer: no entry, all four tags, a tag
\* in another case before the tag itself, one tag twice, an entry without
\* status
MorePollInputs ==
    {PollObject(Object("CLEAR", <<>>)),
     PollObject(Object("WARNING",
                       <<Entry("PSC_HISTORY", "OK"),
                         Entry("COMPANY_SANCTIONS", "NONE"),
                         Entry("SHIP_MOVE_HIST", "WARNING"),
                         Entry("SANCTIONS", "CRITICAL")>>)),
     PollObject(Object("CLEAR",
                       <<Entry("sanctions", "LOW"),
                         Entry("SANCTIONS", "NONE")>>)),
     PollObject(Object("CRITICAL",
                       <<Entry("SANCTIONS", "CRITICAL"),
                         Entry("SANCTIONS", "NONE")>>)),
     PollObject(Object("CLEAR",
                       <<Entry("SANCTIONS", "null"),
                         Entry("OTHER", "NONE")>>)),
     PollObject(Object("CLEAR",
                       <<Entry("SANCTIONS", "NONE"), NotADict>>))}

RichPollInputs == PollInputs \cup MorePollInputs

\* one zone-port event that asks for screening is stored
ScreeningIngest ==
    /\ Len(reqLog) = 0
    /\ \E payload \in {ImoAtNotification, ImoAtTop} :
         ZonePortWebhook(U1true, payload, TRUE, TRUE, NoFault)
    /\ UNCHANGED observers

ScreeningRich ==
    /\ \E id \in Ids :
         \/ \E configOk \in BOOLEAN : ScreenStart(id, configOk)
         \/ \E answer \in RegisterInputs \cup {"T2"} :
                RegisterResponse(id, answer)
         \/ \E answer \in RichPollInputs, updateOk \in BOOLEAN :
                PollAttempt(id, answer, updateOk)
    /\ UNCHANGED observers

NextScreening == ScreeningIngest \/ ScreeningRich

SpecScreening == Init /\ [][NextScreening]_vars


(***************************************************************************)
(* The sanitization of what is published, over references that hold markup *)
(* at several depths; one stream takes the messages.                       *)
(***************************************************************************)
MarkupChars == {"<", ">", "&", "\"", "'", "a"}

\* every string of at most two of these characters
MarkupStrings == UNION {[1..n -> MarkupChars] : n \in 0..2}

\* lists and dicts around such strings, and around each other
NestedRefs ==
    {PyList(<<PyStr(<<c>>)>>) : c \in MarkupChars}
      \cup {PyDict([k \in {"k"} |-> PyStr(<<c>>)]) : c \in MarkupChars}
      \cup {PyList(<<PyInt(1), PyList(<<PyStr(<<"<", "a", ">">>)>>),
                     PyStr(<<"&">>)>>),
            PyDict([k \in {"k", "<"} |->
                      IF k = "k" THEN PyList(<<PyDict([j \in {"j"} |->
                                                         PyStr(<<"\"", "'">>)])>>)
                      ELSE None]),
            PyList(<<PyList(<<PyList(<<PyStr(<<">">>)>>)>>)>>)}

MarkupRefs ==
    {PyStr(s) : s \in MarkupStrings}
      \cup {PyStr(<<"<", "b", ">", "|", "n", "o">>),
            PyStr(<<"&", "|", "&">>)}
      \cup NestedRefs

SanitizePublish ==
    /\ \E custom_ref \in MarkupRefs, fault \in FaultInputs :
         ZonePortWebhook(custom_ref, ImoAtNotification, TRUE, TRUE, fault)
    /\ UNCHANGED observers

SanitizeStreaming ==
    /\ \/ ZonePortEventsStream(1, "logged_in")
       \/ EventGeneratorStart(1)
       \/ EventGeneratorGet(1)
    /\ UNCHANGED observers

NextSanitize == SanitizePublish \/ SanitizeStreaming

SpecSanitize == Init /\ [][NextSanitize]_vars


(***************************************************************************)
(* The poll loop at its full length, for one record.                       *)
(***************************************************************************)
PollingIngest ==
    /\ Len(reqLog) = 0
    /\ ZonePortWebhook(U1true, ImoAtNotification, TRUE, TRUE, NoFault)
    /\ UNCHANGED observers

\* the next step of the task of record id
PollingStep(id) ==
    /\ \/ ScreenStart(id, TRUE)
       \/ \E answer \in RegisterInputs : RegisterResponse(id, answer)
       \/ \E answer \in PollInputs, updateOk \in BOOLEAN :
              PollAttemptOf(full_total_attempts, id, answer, updateOk)
    /\ UNCHANGED observers

PollingFull == \E id \in Ids : PollingStep(id)

NextPolling == PollingIngest \/ PollingFull

SpecPolling == Init /\ [][NextPolling]_vars

\* Every step of a task is taken in the end: the event loop runs the task
\* that add_task recorded once the response is sent, the provider calls are
\* made with timeout=30 (line 265), so each returns or raises, and
\* asyncio.sleep returns.
SpecPollingFair ==
    SpecPolling /\ \A id \in Ids : WF_vars(PollingStep(id))

(***************************************************************************)
(* Properties.                                                             *)
(***************************************************************************)
\* the calls of the hub that carry record id
BroadcastsOf(id) ==
    {i \in DOMAIN bcastLog : bcastLog[i].notification_id = Str(id)}

Broadcasts(id) == Cardinality(BroadcastsOf(id))

Stored(id) == id \in DOMAIN store

Unresolved(id) == session[id].pc = "done" /\ session[id].term # "Resolved"

C2_NoUpdateWithoutStatus ==
    \A id \in Ids :
        (Stored(id) /\ session[id].screening_status \in {"", "PENDING"}) =>
            /\ session[id].updates = 0
            /\ ~store[id].screening_results.present

C2_Witness ==
    \E id \in Ids :
        /\ session[id].pc = "done"
        /\ session[id].polls = total_attempts
        /\ session[id].screening_status = "PENDING"
        /\ ~store[id].screening_results.present

\* the payload carries a vessel identifier at one of the two places
HasVesselIdentifier(p) ==
    \/ p.notif = "dict" /\ p.nvi \in Imos
    \/ p.vi \in Imos

\* C3 (as stated): when the payload carries no vessel identifier at either
\* place, the session ends in failure with no registration call, no poll
\* and no store update.
C3_NoIdentifierNoRegistration ==
    \A id \in Ids :
        (session[id].pc \notin {"none", "launched"}
           /\ ~HasVesselIdentifier(session[id].payload)) =>
            /\ session[id].pc = "done"
            /\ session[id].regCalls = 0
            /\ session[id].polls = 0
            /\ session[id].updates = 0

\* C4 (as stated): ingestion of a zone-port event never fails because of the
\* reference field: whatever its value, the caller gets a failure only when
\* the store insert failed.
C4_ReferenceNeverFailsIngest ==
    \A i \in DOMAIN reqLog :
        (reqLog[i].kind = "ZonePortEvent" /\ reqLog[i].insert # "failed") =>
            reqLog[i].resp.code = 200

ScreenedKind(id) ==
    store[id].kind = "ZonePortEvent" /\ store[id].auto_screen = PyBool(TRUE)

\* C5 (as stated): every stored record that is not a zone-port event with
\* autoScreen true was forwarded to the hub before Ingest returned.
C5_UnscreenedForwarded ==
    \A id \in Ids : (Stored(id) /\ ~ScreenedKind(id)) => Broadcasts(id) >= 1

\* C5 (amended): every stored zone-port event with autoScreen false or
\* absent was forwarded to the hub, as inserted, before Ingest returned; a
\* vessel event is stored and never forwarded.
C5_UnscreenedZonePortForwarded ==
    \A id \in Ids :
        Stored(id) =>
            /\ (store[id].kind = "ZonePortEvent" /\ ~ScreenedKind(id)) =>
                   /\ Broadcasts(id) >= 1
                   /\ \A i \in BroadcastsOf(id) : bcastLog[i].data = store[id]
            /\ store[id].kind = "VesselEvent" => Broadcasts(id) = 0

C5_Witness ==
    \E id, other \in Ids :
        /\ Stored(id) /\ Stored(other)
        /\ store[id].kind = "ZonePortEvent"
        /\ store[id].auto_screen = None
        /\ Broadcasts(id) = 1
        /\ store[other].kind = "VesselEvent"

\* the first "|" of s is at position k
FirstBarAt(s, k) ==
    k \in 1..Len(s) /\ s[k] = "|" /\ \A j \in 1..(k - 1) : s[j] # "|"

White == {" ", "\t"}

\* t is s without its leading and trailing white space
TrimOf(s, t) ==
    \E lo \in 1..(Len(s) + 1), hi \in 0..Len(s) :
        /\ t = SubSeq(s, lo, hi)
        /\ \A j \in 1..Len(s) : (j < lo \/ j > hi) => s[j] \in White
        /\ t # <<>> => (t[1] \notin White /\ t[Len(t)] \notin White)

\* t is "TRUE" in some mix of cases
IsTrueWord(t) ==
    /\ Len(t) = 4
    /\ t[1] \in {"t", "T"} /\ t[2] \in {"r", "R"}
    /\ t[3] \in {"u", "U"} /\ t[4] \in {"e", "E"}

ContainsBar(s) == \E k \in 1..Len(s) : s[k] = "|"

\* C6: for a stored zone-port event whose reference is a string with a "|",
\* userId is the trimmed text before the first "|" and autoScreen is true
\* exactly when the trimmed text after the first "|" is "TRUE" in any case;
\* when the reference is absent or a string without "|", both are null.
C6_ReferenceDerivation ==
    \A id \in Ids :
        (Stored(id) /\ store[id].kind = "ZonePortEvent") =>
            LET ref == store[id].custom_reference
                doc == store[id]
            IN  /\ (ref.tag = "str" /\ ContainsBar(ref.s)) =>
                       \E k \in 1..Len(ref.s) :
                           LET after == SubSeq(ref.s, k + 1, Len(ref.s))
                           IN  /\ FirstBarAt(ref.s, k)
                               /\ doc.user_id.tag = "str"
                               /\ TrimOf(SubSeq(ref.s, 1, k - 1), doc.user_id.s)
                               /\ doc.auto_screen.tag = "bool"
                               /\ \E lo \in 1..(Len(after) + 1),
                                     hi \in 0..Len(after) :
                                      /\ TrimOf(after, SubSeq(after, lo, hi))
                                      /\ (doc.auto_screen = PyBool(TRUE))
                                           <=> IsTrueWord(SubSeq(after, lo, hi))
                /\ (ref.tag = "none" \/ (ref.tag = "str" /\ ~ContainsBar(ref.s)))
                       => (doc.user_id = None /\ doc.auto_screen = None)

C6_Witness ==
    \E id \in Ids :
        /\ Stored(id)
        /\ store[id].kind = "ZonePortEvent"
        /\ store[id].custom_reference =
               PyStr(<<" ", "U", "1", " ", "|", " ", "T", "R", "U", "E", " ">>)
        /\ store[id].user_id = PyStr(<<"U", "1">>)
        /\ store[id].auto_screen = PyBool(TRUE)

\* C7: a stored zone-port event whose derived autoScreen is false was
\* broadcast exactly once, at ingestion, and is never broadcast again; no
\* screening session exists for it (no registration, no poll).
C7_UnscreenedBroadcastOnce ==
    \A id \in Ids :
        (Stored(id) /\ store[id].kind = "ZonePortEvent"
           /\ store[id].auto_screen = PyBool(FALSE)) =>
            /\ Broadcasts(id) = 1
            /\ session[id] = NoSession

C7_Witness ==
    \E id \in Ids :
        /\ Stored(id)
        /\ store[id].kind = "ZonePortEvent"
        /\ store[id].auto_screen = PyBool(FALSE)
        /\ reqLog[id].hub = "returned"
        /\ Broadcasts(id) = 1
        /\ \E c \in Chans : stream[c] = "closed"

\* C8: when the store insert fails the caller gets a failure, no record
\* exists in the store, no screening session is launched and no broadcast
\* is made for the request.
C8_InsertFailureStopsPipeline ==
    \A i \in DOMAIN reqLog :
        reqLog[i].insert = "failed" =>
            /\ reqLog[i].resp.code = 500
            /\ ~Stored(i)
            /\ session[i].pc = "none"
            /\ Broadcasts(i) = 0

C8_Witness ==
    \E i, j \in DOMAIN reqLog :
        /\ reqLog[i].kind = "ZonePortEvent" /\ reqLog[i].insert = "failed"
        /\ reqLog[j].kind = "VesselEvent" /\ reqLog[j].insert = "failed"

\* C9: once the insert has succeeded the caller gets success with the
\* assigned identifier, also when the hub raised or a connection's queue
\* was full during the broadcast.
C9_StoredMeansSuccess ==
    \A i \in DOMAIN reqLog : Stored(i) => reqLog[i].resp = Response(200, i)

\* one stored request whose broadcast raised inside the hub, one whose
\* screening task was launched
C9_Witness ==
    \E i, j \in DOMAIN reqLog :
        /\ Stored(i) /\ reqLog[i].hub = "raised"
        /\ Stored(j) /\ session[j].pc # "none"
        /\ reqLog[i].resp.code = 200 /\ reqLog[j].resp.code = 200

\* C10: in no reachable state has a record been broadcast or screened
\* (session launched, registration, poll, store update) while not stored.
C10_StoredBeforeScreeningAndBroadcast ==
    \A id \in Ids :
        (Broadcasts(id) > 0 \/ session[id].pc # "none"
           \/ session[id].regCalls > 0 \/ session[id].polls > 0
           \/ session[id].updates > 0) => Stored(id)

C10_Witness ==
    \E id \in Ids :
        /\ Stored(id)
        /\ session[id].term = "Resolved"
        /\ session[id].regCalls = 1
        /\ session[id].polls = total_attempts
        /\ session[id].updates = 1
        /\ Broadcasts(id) = 1

\* the handler of record id called the hub itself
BroadcastAtIngestion(id) == reqLog[id].hub # "not_called"

\* a screening session was given to record id
HasSession(id) == session[id].pc # "none"

\* C11: per record the immediate-broadcast path and the screening path are
\* mutually exclusive: no record is both broadcast at ingestion and given a
\* screening session, and no record is broadcast more than twice.
C11_PathsExclusive ==
    \A id \in DOMAIN reqLog :
        /\ ~(BroadcastAtIngestion(id) /\ HasSession(id))
        /\ Broadcasts(id) <= 2

C11_Witness ==
    \E i, j \in DOMAIN reqLog :
        /\ BroadcastAtIngestion(i) /\ ~HasSession(i) /\ Broadcasts(i) = 1
        /\ ~BroadcastAtIngestion(j) /\ session[j].pc = "done"
        /\ Broadcasts(j) = 1

ResultPresent(id) == store[id].screening_results.present

\* C12: a record's screeningResult is absent until the record's session has
\* seen a status other than PENDING, is written at most once, and once
\* present it is the same in every later state.
C12_ResultWrittenOnce ==
    /\ [](\A id \in DOMAIN store :
            /\ session[id].updates <= 1
            /\ ResultPresent(id) <=> session[id].updates = 1
            /\ ResultPresent(id) =>
                   session[id].screening_status \notin {"", "PENDING"})
    /\ [][\A id \in DOMAIN store :
            ResultPresent(id) =>
                store'[id].screening_results = store[id].screening_results]_vars

C12_Witness ==
    \E id, other \in DOMAIN store :
        /\ ResultPresent(id)
        /\ session[id].updates = 1
        /\ Broadcasts(id) = 1
        /\ session[other].pc = "done"
        /\ session[other].polls = total_attempts
        /\ ~ResultPresent(other)

\* the poll answer carries a first object with a status other than "PENDING"
NonPending(answer) ==
    /\ answer.kind = "object"
    /\ answer.object.screening_status \notin {"PENDING", "missing"}

\* every entry of the check list is an object
WellFormed(screen_results) ==
    \A i \in 1..Len(screen_results) : screen_results[i].dict

\* the status of the first entry with exactly this tag, null without one
TagStatus(screen_results, tag) ==
    IF \E i \in 1..Len(screen_results) : screen_results[i].check = tag
    THEN LET k == CHOOSE i \in 1..Len(screen_results) :
                      /\ screen_results[i].check = tag
                      /\ \A j \in 1..(i - 1) : screen_results[j].check # tag
         IN  screen_results[k].status
    ELSE "null"

\* the screeningResult the claim describes for transaction T and object o
Described(T, o) ==
    [present |-> TRUE, transaction_id |-> T,
     overall_severity |-> o.screening_status,
     company_sanctions |-> TagStatus(o.screen_results, "COMPANY_SANCTIONS"),
     ship_sanctions |-> TagStatus(o.screen_results, "SANCTIONS"),
     ship_movement |-> TagStatus(o.screen_results, "SHIP_MOVE_HIST"),
     psc |-> TagStatus(o.screen_results, "PSC_HISTORY")]

Registering(c) == stream[c] = "new" /\ stream'[c] # "new"

\* C14: the number of live channels never exceeds the maximum, under any
\* interleaving of stream requests, closes, notifications and heartbeats; a
\* Register attempted at the maximum is rejected, and a rejected Register
\* leaves the live set and every outbox unchanged.
C14_LiveChannelsBounded ==
    /\ [](Cardinality(active_connections) <= max_connections)
    /\ [][\A c \in Chans :
            Registering(c) =>
                /\ (Cardinality(active_connections) >= max_connections
                      /\ stream'[c] # "unauthorized")
                       => stream'[c] = "rejected"
                /\ stream'[c] = "rejected" =>
                       /\ active_connections' = active_connections
                       /\ queue' = queue]_vars

C14_Witness ==
    \E c \in Chans :
        /\ stream[c] = "rejected"
        /\ Cardinality(active_connections) = max_connections
        /\ \A d \in active_connections : queue[d] # <<>>

\* the outbox of channel c is full
OutboxFull(c) == Len(queue[c]) >= maxsize

\* message is the notification of the request handled in this step
PublishedBy(message) ==
    /\ message.json.type = "zone_port_notification"
    /\ message.json.notification_id = Str(Len(reqLog'))

\* the step is a Publish that reaches the channels, with this fault
Publishing(fault) ==
    /\ ~fault.sanitize
    /\ \E custom_ref \in HubRefs :
           ZonePortWebhook(custom_ref, ImoAtNotification, TRUE, TRUE, fault)

\* the step is a Publish that finds a registered channel's outbox full
PublishingToFull(fault) ==
    /\ \E c \in active_connections : OutboxFull(c)
    /\ Publishing(fault)

\* channel c has free capacity and its put_nowait takes the message
Accepts(c, fault) == ~OutboxFull(c) /\ c \notin fault.broken

\* C15: when Publish finds a registered channel's outbox full, that channel
\* is deregistered and gets no message, while every other channel that was
\* registered at the start of the Publish and has free capacity gets exactly
\* one copy of the message: a full outbox on one channel never makes
\* another channel miss a message.
C15_FullOutboxIsolated ==
    [][\A fault \in HubFaultInputs :
         PublishingToFull(fault) =>
             \E message \in UNION {{queue'[c][i] : i \in 1..Len(queue'[c])} :
                                      c \in Chans} \cup {HeartbeatMessage} :
                 \A c \in active_connections :
                     /\ OutboxFull(c) =>
                            /\ c \notin active_connections'
                            /\ queue'[c] = queue[c]
                     /\ Accepts(c, fault) =>
                            /\ c \in active_connections'
                            /\ PublishedBy(message)
                            /\ queue'[c] = Append(queue[c], message)]_vars

\* the notification of request id is in what channel c was given
Given(c, id) ==
    \E i \in 1..Len(received[c] \o queue[c]) :
        LET m == (received[c] \o queue[c])[i]
        IN  m.json.type = "zone_port_notification"
              /\ m.json.notification_id = Str(id)

C15_Witness ==
    \E slow, other \in Chans :
        /\ stream[slow] \in {"open", "loop"}
        /\ slow \notin active_connections
        /\ OutboxFull(slow)
        /\ ~Given(slow, 2)
        /\ other \in active_connections
        /\ Given(other, 2)

\* C16: every channel's outbox holds at most maxsize messages in every
\* reachable state, and neither Publish nor Heartbeat waits for space: the
\* delivery of a message to the channels of any reachable state is complete
\* at once, a full outbox is left as it is and its channel is dropped.
C16_OutboxBounded ==
    /\ \A c \in Chans : Len(queue[c]) <= maxsize
    /\ \A message \in {HeartbeatMessage} \cup
                      {FormatSSEMessage(SanitizeNotification(bcastLog[i])) :
                          i \in DOMAIN bcastLog} :
           LET d == Deliver(active_connections, queue, message, {})
           IN  /\ \A c \in Chans : Len(d.queue[c]) <= maxsize
               /\ \A c \in active_connections :
                      IF OutboxFull(c)
                      THEN c \notin d.active /\ d.queue[c] = queue[c]
                      ELSE c \in d.active
                             /\ d.queue[c] = Append(queue[c], message)

C16_Witness ==
    \E c, d \in Chans :
        /\ stream[c] = "loop" /\ c \notin active_connections
        /\ Len(queue[c]) = maxsize
        /\ d \in active_connections
        /\ Len(queue[d]) = maxsize

\* the step ends the generator of channel c
Closing(c) == stream[c] # "closed" /\ stream'[c] = "closed"

\* C17: a stream that has closed (idle timeout, client gone, or an error)
\* is not in the live set afterwards; its close calls disconnect exactly
\* once, also after an eviction, and takes nothing but its own channel from
\* the live set; a channel enters the live set only at its registration, so
\* it leaves it once.
C17_CloseDeregistersOnce ==
    /\ [](\A c \in Chans :
            stream[c] = "closed" => c \notin active_connections)
    /\ [][\A c \in Chans :
            /\ Closing(c) =>
                   /\ active_connections' = active_connections \ {c}
                   /\ disconnects'[c] = disconnects[c] + 1
            /\ stream[c] = "closed" => stream'[c] = "closed"
            /\ (c \notin active_connections /\ c \in active_connections')
                   => stream[c] = "new"]_vars

C17_Witness ==
    \E c, d \in Chans :
        /\ stream[c] = "closed" /\ disconnects[c] = 2
        /\ stream[d] = "closed" /\ disconnects[d] = 1
        /\ Len(received[d]) > 1

\* C18: Deregister is idempotent and total: for the live set of every
\* reachable state and every channel, registered, removed before or never
\* registered, a second call changes nothing, a call for a channel that is
\* not live changes nothing, and no call removes another channel; the close
\* of an evicted channel (its second call) completes and leaves the live
\* set as it is.
C18_DeregisterIdempotent ==
    /\ [](\A c \in Chans :
            LET once == Disconnect(active_connections, c)
            IN  /\ Disconnect(once, c) = once
                /\ c \notin active_connections => once = active_connections
                /\ once = active_connections \ {c})
    /\ [][\A c \in Chans :
            (Closing(c) /\ c \notin active_connections) =>
                active_connections' = active_connections]_vars

C18_Witness ==
    \E c, d \in Chans :
        /\ stream[c] = "closed" /\ disconnects[c] = 2
        /\ d \in active_connections
        /\ \E e \in Chans : stream[e] \in {"rejected", "unauthorized"}

\* the channels whose put_nowait fails in a delivery with these broken ones
Failing(broken) ==
    {c \in active_connections : OutboxFull(c) \/ c \in broken}

\* the step drops the channels in failing from the live set, leaves their
\* outboxes and the outboxes of the channels that are not live as they are,
\* and ends no stream
OnlyDrops(failing) ==
    /\ active_connections' = active_connections \ failing
    /\ \A c \in Chans :
           (c \in failing \/ c \notin active_connections) =>
               queue'[c] = queue[c]
    /\ stream' = stream

\* C19: delivery failures stay with their channel: a notification's hand-over
\* to the hub and a heartbeat complete whatever the channels' state (full
\* outbox, enqueue error), the caller of the hand-over sees no error, and
\* the only effect of a failure is that the failing channel is deregistered.
C19_DeliveryFailuresIsolated ==
    /\ [](\A fault \in HubFaultInputs, id \in Ids, doc \in {bcastLog[i].data :
                                                          i \in DOMAIN bcastLog} :
            LET b == BroadcastNotificationToSSE(active_connections, queue,
                                                bcastLog, doc, id, fault)
            IN  ~b.raised)
    /\ [][\A fault \in HubFaultInputs :
            (\E custom_ref \in HubRefs :
                 ZonePortWebhook(custom_ref, ImoAtNotification, TRUE, TRUE,
                                 fault)) =>
                /\ reqLog'[Len(reqLog')].resp = Response(200, Len(reqLog'))
                /\ OnlyDrops(IF fault.sanitize THEN {}
                             ELSE Failing(fault.broken))]_vars
    /\ [][\A broken \in SUBSET active_connections :
            SendHeartbeat(broken) => OnlyDrops(Failing(broken))]_vars

C19_Witness ==
    \E i \in DOMAIN reqLog, c, d \in Chans :
        /\ reqLog[i].hub = "evicted" /\ reqLog[i].resp.code = 200
        /\ stream[c] = "loop" /\ c \notin active_connections
        /\ ~OutboxFull(c)
        /\ stream[d] = "loop" /\ d \notin active_connections
        /\ OutboxFull(d)

\* what the hub has put into the outbox of channel c so far, as the stream
\* shows it: the messages sent on after the confirmation, then the outbox
GivenTo(c) ==
    (IF received[c] = <<>> THEN <<>> ELSE Tail(received[c])) \o queue[c]

\* C20: every stream sends the connection confirmation first, and then the
\* messages the hub enqueued to its channel, each once, as enqueued and in
\* the order of enqueueing (the ones enqueued before the confirmation
\* included), until it closes.
C20_ConfirmationThenFifo ==
    /\ [](\A c \in Chans :
            received[c] # <<>> =>
                /\ received[c][1] = InitialMessage
                /\ \A i \in 2..Len(received[c]) :
                       received[c][i] # InitialMessage)
    /\ [][\A c \in Chans :
            /\ \/ GivenTo(c)' = GivenTo(c)
               \/ /\ Len(queue'[c]) = Len(queue[c]) + 1
                  /\ GivenTo(c)' = Append(GivenTo(c), queue'[c][Len(queue'[c])])
                  /\ received'[c] = received[c]
            /\ received'[c] # received[c] =>
                   \/ /\ received[c] = <<>>
                      /\ received'[c] = <<InitialMessage>>
                      /\ queue'[c] = queue[c]
                   \/ /\ received[c] # <<>> /\ queue[c] # <<>>
                      /\ received'[c] = Append(received[c], Head(queue[c]))
                      /\ queue'[c] = Tail(queue[c])
            /\ stream[c] = "closed" => received'[c] = received[c]]_vars

C20_Witness ==
    \E c, d \in Chans :
        /\ stream[c] = "closed"
        /\ Len(received[c]) = 4
        /\ received[c][2].json.type = "zone_port_notification"
        /\ received[c][3] = HeartbeatMessage
        /\ received[c][4].json.type = "zone_port_notification"
        /\ stream[d] = "open" /\ queue[d] # <<>>

\* the heartbeat is in a sequence of messages
HasHeartbeat(s) == \E i \in 1..Len(s) : s[i] = HeartbeatMessage

\* C21: each Heartbeat enqueues one liveness message, carrying only a type
\* discriminator and a timestamp, to every channel registered at that moment
\* without waiting: a channel whose outbox is full is deregistered and gets
\* nothing, every other registered channel whose enqueue succeeds gets the
\* heartbeat once and stays registered, and no other outbox changes.
C21_HeartbeatReachesEveryChannel ==
    /\ [](/\ DOMAIN HeartbeatMessage.json = {"type", "timestamp"}
          /\ HeartbeatMessage.json.type = "heartbeat")
    /\ [][\A broken \in SUBSET active_connections :
            SendHeartbeat(broken) =>
                \A c \in Chans :
                    /\ (c \in active_connections /\ OutboxFull(c)) =>
                           /\ c \notin active_connections'
                           /\ queue'[c] = queue[c]
                    /\ (c \in active_connections /\ ~OutboxFull(c)
                          /\ c \notin broken) =>
                           /\ c \in active_connections'
                           /\ queue'[c] = Append(queue[c], HeartbeatMessage)
                    /\ c \notin active_connections =>
                           /\ c \notin active_connections'
                           /\ queue'[c] = queue[c]]_vars

\* a heartbeat found the outbox of slow full (both notifications are in it)
\* and reached other
C21_Witness ==
    \E slow, other \in Chans :
        /\ stream[slow] \in {"open", "loop"}
        /\ slow \notin active_connections
        /\ Len(queue[slow]) = maxsize
        /\ \A i \in 1..Len(queue[slow]) :
               queue[slow][i].json.type = "zone_port_notification"
        /\ ~HasHeartbeat(received[slow])
        /\ other \in active_connections
        /\ HasHeartbeat(queue[other])

\* the keys the claim asks of an envelope
EnvelopeKeys == {"type", "timestamp", "data", "notification_id"}

\* envelope e names a stored record by the text of its identifier and
\* carries that record
NamesItsRecord(e, doc) ==
    \E id \in DOMAIN store :
        /\ e.notification_id = Str(id)
        /\ doc = store[id]

\* C22: every notification the hub is handed, and every notification message
\* in an outbox, carries a type discriminator, a timestamp, the data payload
\* and a record identifier that is the text of the store-assigned identifier
\* of the record it carries, at ingestion and after screening alike; the
\* identifier is never empty or missing.
C22_EnvelopeNamesRecord ==
    /\ \A i \in DOMAIN bcastLog :
           LET e == bcastLog[i]
           IN  /\ EnvelopeKeys \subseteq DOMAIN e
               /\ e.type = "zone_port_notification"
               /\ e.notification_id.tag = "str"
               /\ e.notification_id.s # <<>>
               /\ NamesItsRecord(e, e.data)
    /\ \A c \in Chans : \A i \in 1..Len(queue[c]) :
           LET m == queue[c][i].json
           IN  m.type = "zone_port_notification" =>
                   /\ EnvelopeKeys \subseteq DOMAIN m
                   /\ m.notification_id.s # <<>>
                   /\ \E id \in DOMAIN store :
                          /\ m.notification_id = Str(id)
                          /\ m.data = SanitizeDoc(store[id])

\* a notification forwarded at ingestion and one forwarded after its
\* screening were handed to the hub, and the second is in an outbox
C22_Witness ==
    \E i, j \in DOMAIN bcastLog :
        /\ ~bcastLog[i].data.screening_results.present
        /\ ~Truthy(bcastLog[i].data.auto_screen)
        /\ bcastLog[j].data.screening_results.present
        /\ bcastLog[j].notification_id = Str(2)
        /\ \E c \in Chans : \E k \in 1..Len(queue[c]) :
               /\ queue[c][k].json.type = "zone_port_notification"
               /\ queue[c][k].json.notification_id = Str(2)

\* the characters html.escape replaces
Markup == {"<", ">", "&", "\"", "'"}

\* the five character references of html.escape
CharRefs ==
    {<<"&", "a", "m", "p", ";">>, <<"&", "l", "t", ";">>,
     <<"&", "g", "t", ";">>, <<"&", "q", "u", "o", "t", ";">>,
     <<"&", "#", "x", "2", "7", ";">>}

\* string t holds a markup character that is not part of a character
\* reference
Unescaped(t) ==
    \E i \in 1..Len(t) :
        \/ t[i] \in Markup \ {"&"}
        \/ /\ t[i] = "&"
           /\ ~\E r \in CharRefs :
                  i + Len(r) - 1 <= Len(t) /\ SubSeq(t, i, i + Len(r) - 1) = r

\* no string of value v, at any depth, holds unescaped markup
RECURSIVE Clean(_)
Clean(v) ==
    CASE v.tag = "str"  -> ~Unescaped(v.s)
      [] v.tag = "dict" -> \A k \in DOMAIN v.fields : Clean(v.fields[k])
      [] v.tag = "list" -> \A i \in 1..Len(v.items) : Clean(v.items[i])
      [] OTHER          -> TRUE

\* the character a reference stands for
CharOf(r) ==
    CASE r = <<"&", "a", "m", "p", ";">> -> "&"
      [] r = <<"&", "l", "t", ";">> -> "<"
      [] r = <<"&", "g", "t", ";">> -> ">"
      [] r = <<"&", "q", "u", "o", "t", ";">> -> "\""
      [] OTHER -> "'"

\* string t with its character references read back
RECURSIVE Decoded(_)
Decoded(t) ==
    IF t = <<>> THEN <<>>
    ELSE LET refs == {r \in CharRefs :
                         Len(r) <= Len(t) /\ SubSeq(t, 1, Len(r)) = r}
         IN  IF refs = {} THEN <<Head(t)>> \o Decoded(Tail(t))
             ELSE LET r == CHOOSE r \in refs : TRUE
                  IN  <<CharOf(r)>> \o Decoded(SubSeq(t, Len(r) + 1, Len(t)))

\* value v with every string read back
RECURSIVE DecodedValue(_)
DecodedValue(v) ==
    CASE v.tag = "str"  -> PyStr(Decoded(v.s))
      [] v.tag = "dict" ->
             PyDict([k \in DOMAIN v.fields |-> DecodedValue(v.fields[k])])
      [] v.tag = "list" ->
             PyList([i \in 1..Len(v.items) |-> DecodedValue(v.items[i])])
      [] OTHER          -> v

\* some string of value v, at any depth, holds a markup character
RECURSIVE HoldsMarkup(_)
HoldsMarkup(v) ==
    CASE v.tag = "str"  -> \E i \in 1..Len(v.s) : v.s[i] \in Markup
      [] v.tag = "dict" -> \E k \in DOMAIN v.fields : HoldsMarkup(v.fields[k])
      [] v.tag = "list" -> \E i \in 1..Len(v.items) : HoldsMarkup(v.items[i])
      [] OTHER          -> FALSE

\* C23: in every notification message of an outbox, every string value, at
\* any depth inside dicts and lists, is the escaped form of the string of
\* the record: no markup character (<, >, &, a quote) of the input is in
\* the message unescaped, and reading the character references back gives
\* the input; the record in the store and the envelope handed to the hub
\* keep the unescaped input.
C23_StringsEscapedAtAnyDepth ==
    /\ \A c \in Chans : \A i \in 1..Len(queue[c]) :
           LET m == queue[c][i].json
           IN  m.type = "zone_port_notification" =>
                   /\ Clean(m.notification_id) /\ Clean(m.user_id)
                   /\ Clean(m.data.custom_reference) /\ Clean(m.data.user_id)
                   /\ \E k \in DOMAIN bcastLog :
                          LET e == bcastLog[k]
                          IN  /\ DecodedValue(m.notification_id)
                                   = e.notification_id
                              /\ DecodedValue(m.user_id) = e.user_id
                              /\ DecodedValue(m.data.custom_reference)
                                   = e.data.custom_reference
                              /\ DecodedValue(m.data.user_id) = e.data.user_id
    /\ \A k \in DOMAIN bcastLog : NamesItsRecord(bcastLog[k], bcastLog[k].data)

\* a published reference holds a quote inside a dict inside a list inside
\* a dict, another a "<" in the part that becomes the user id
C23_Witness ==
    \E c \in Chans : \E i, j \in 1..Len(queue[c]) :
        LET m == queue[c][i].json
            n == queue[c][j].json
        IN  /\ m.data.custom_reference.tag = "dict"
            /\ m.data.custom_reference.fields["k"].tag = "list"
            /\ m.data.custom_reference.fields["k"].items[1].tag = "dict"
            /\ m.data.custom_reference.fields["k"].items[1].fields["j"]
                 = PyStr(<<"&", "q", "u", "o", "t", ";",
                           "&", "#", "x", "2", "7", ";">>)
            /\ n.user_id = PyStr(<<"&", "l", "t", ";", "b", "&", "g", "t", ";">>)
            /\ \E k \in DOMAIN bcastLog : HoldsMarkup(bcastLog[k].user_id)

\* C24: a channel enters the live set only in a stream request whose
\* is-logged-in check gave true; a request of an unknown user, of a user who
\* is not logged in, or whose check failed is rejected and leaves the live
\* set and every outbox as they are, and its channel is never live and never
\* given a message.
C24_RegisteredOnlyIfLoggedIn ==
    /\ [](\A c \in Chans :
            stream[c] = "unauthorized" =>
                /\ c \notin active_connections
                /\ queue[c] = <<>>
                /\ received[c] = <<>>)
    /\ [][\A c \in Chans :
            /\ (c \notin active_connections /\ c \in active_connections') =>
                   ZonePortEventsStream(c, "logged_in")
            /\ \A auth \in AuthInputs \ {"logged_in"} :
                   ZonePortEventsStream(c, auth) =>
                       /\ stream'[c] = "unauthorized"
                       /\ active_connections' = active_connections
                       /\ queue' = queue]_vars

\* the first request was rejected, the second one registered, and a
\* notification published afterwards reached the second only
C24_Witness ==
    /\ stream[1] = "unauthorized"
    /\ 2 \in active_connections
    /\ \E i \in 1..Len(queue[2]) :
           queue[2][i].json.type = "zone_port_notification"
    /\ queue[1] = <<>>

\* the sleep that follows attempt n, as the claim gives it
SleepAfter(n) ==
    IF n \in 1..20 THEN 3 ELSE IF n \in 21..32 THEN 5 ELSE 10

\* the sleeps that follow the attempts 1..k
RECURSIVE SleptAfter(_)
SleptAfter(k) == IF k = 0 THEN 0 ELSE SleptAfter(k - 1) + SleepAfter(k)

\* the answer makes the loop break (lines 313-314)
Breaks(answer) ==
    answer.kind = "object" /\ StatusOf(answer.object) # "PENDING"

\* C25: a session makes at most 50 poll attempts; the counter goes up by
\* exactly one at every attempt that does not break out of the loop, an
\* errored one included, and such an attempt n is followed by a sleep of 3
\* seconds for n in 1..20, 5 for n in 21..32 and 10 for n in 33..50 whatever
\* its answer was; an attempt that breaks out sleeps no more; so the sleeps
\* after k attempts sum as the table says, and to 300 seconds when all 50
\* attempts were made.
C25_PollSchedule ==
    /\ [](\A id \in Ids :
            /\ session[id].polls <= 50
            /\ session[id].poll_count <= 50
            /\ session[id].slept = SleptAfter(session[id].poll_count)
            /\ session[id].poll_count = 50 => session[id].slept = 300)
    /\ [][\A id \in Ids, answer \in PollInputs, updateOk \in BOOLEAN :
            PollAttemptOf(full_total_attempts, id, answer, updateOk) =>
                LET n == session[id].polls + 1
                IN  /\ session'[id].polls = n
                    /\ n = session[id].poll_count + 1
                    /\ IF Breaks(answer)
                       THEN /\ session'[id].slept = session[id].slept
                            /\ session'[id].poll_count = session[id].poll_count
                       ELSE /\ session'[id].slept
                                 = session[id].slept + SleepAfter(n)
                            /\ session'[id].poll_count = n
                            /\ n < 50 => session'[id].pc = "polling"]_vars

\* a session whose 50 polls were all pending, empty or errored
C25_Witness ==
    \E id \in Ids :
        /\ session[id].term = "TimedOut"
        /\ session[id].polls = 50
        /\ session[id].slept = 300

\* C26: for a Resolved session the store holds the screening result by the
\* time the record is handed to the hub, and what is handed over is the
\* updated record: every broadcast of the record carries the screening
\* result that was written, and the step that broadcasts it leaves the
\* result in the store.
C26_UpdateBeforeBroadcast ==
    /\ [](\A id \in Ids :
            session[id].term = "Resolved" =>
                /\ ResultPresent(id)
                /\ session[id].updates = 1
                /\ session[id].found => Broadcasts(id) = 1
                /\ \A i \in BroadcastsOf(id) :
                       /\ bcastLog[i].data.screening_results.present
                       /\ bcastLog[i].data.screening_results
                            = store[id].screening_results
                       /\ bcastLog[i].data = store[id])
    /\ [][\A id \in Ids :
            (Broadcasts(id)' > Broadcasts(id)
               /\ session'[id].term = "Resolved") =>
                /\ store'[id].screening_results.present
                /\ bcastLog'[Len(bcastLog')].data = store'[id]]_vars

\* a Resolved session whose record was read back and broadcast, and the
\* message with the result is in an outbox
C26_Witness ==
    \E id \in Ids, c \in Chans :
        /\ session[id].term = "Resolved"
        /\ session[id].found
        /\ Broadcasts(id) = 1
        /\ \E k \in 1..Len(queue[c]) :
               /\ queue[c][k].json.type = "zone_port_notification"
               /\ queue[c][k].json.notification_id = Str(id)
               /\ queue[c][k].json.data.screening_results.overall_severity
                    = "CLEAR"

\* the ways a task ends: with the result stored, after a failure, or with
\* the attempts used up
TerminalStates ==
    {"Resolved", "ConfigMissing", "ExtractFailed", "RegisterFailed",
     "NoTransactionId", "FinalizeError", "TimedOut"}

\* C27: every launched screening session ends, in one of its terminal
\* states, with nothing cancelling it from outside: whatever the provider
\* answers (pending, empty or an error, at every attempt), the session
\* makes at most 50 polls and is then done.
C27_SessionTerminates ==
    /\ \A id \in Ids :
           (session[id].pc \notin {"none", "done"}) ~> (session[id].pc = "done")
    /\ [](\A id \in Ids :
            /\ session[id].pc = "done" => session[id].term \in TerminalStates
            /\ session[id].polls <= full_total_attempts)

\* the session whose every poll was pending, empty or errored is done, and
\* its record was broadcast without a result
C27_Witness ==
    \E id \in Ids :
        /\ session[id].pc = "done"
        /\ session[id].term = "TimedOut"
        /\ session[id].polls = full_total_attempts
        /\ ~ResultPresent(id)
        /\ Broadcasts(id) = 1

\* record id as it is in the store, but for its screening result
Unscreened(doc) == [doc EXCEPT !.screening_results = NoResults]

\* C28: with the sessions of different records running side by side, a
\* store update changes one record only, the one of the session that makes
\* it, and of that record the screening result only: no step removes or
\* renames a record, every other record and every other field of the same
\* record (kind, received_at, custom_reference, user_id, auto_screen,
\* payload) stay as they are.
C28_UpdateTouchesOwnResultOnly ==
    [][/\ DOMAIN store \subseteq DOMAIN store'
       /\ \A id \in DOMAIN store :
              /\ Unscreened(store'[id]) = Unscreened(store[id])
              /\ store'[id] # store[id] =>
                     /\ session'[id].updates = session[id].updates + 1
                     /\ session[id].pc = "polling"
                     /\ \A other \in DOMAIN store \ {id} :
                            /\ store'[other] = store[other]
                            /\ session'[other] = session[other]]_vars

\* the session of record 2 has stored its result while the session of
\* record 1 is still polling; record 1 has none
C28_Witness ==
    /\ DOMAIN store = {1, 2}
    /\ session[1].pc = "polling" /\ session[1].polls > 0
    /\ ~ResultPresent(1)
    /\ session[2].term = "Resolved"
    /\ ResultPresent(2)
    /\ store[2].user_id = store[1].user_id

\* the orders in which list(S) may give the elements of the set S
Orders(S) ==
    {f \in [1..Cardinality(S) -> S] :
        \A i, j \in 1..Cardinality(S) : i # j => f[i] # f[j]}

\* C29: Publish and Heartbeat enqueue only to channels that are in the live
\* set at the instant of the enqueue.  No step lengthens the outbox of a
\* channel that is not live (closed by its stream, or evicted), and the
\* channel it lengthens stays live; and in the loop over the snapshot, taken
\* in any order and with any failures, every enqueue goes to a channel that
\* is live at that point, a channel the loop has deregistered gets nothing
\* further, and the loop ends in the live set and outboxes of Deliver.
C29_EnqueueOnlyToLive ==
    /\ [][\A c \in Chans :
            Len(queue'[c]) > Len(queue[c]) =>
                c \in active_connections /\ c \in active_connections']_vars
    /\ [](\A order \in Orders(active_connections),
             broken \in SUBSET active_connections :
            LET l == DeliverLoop(order, active_connections, queue,
                                 HeartbeatMessage, broken, <<>>)
                d == Deliver(active_connections, queue, HeartbeatMessage,
                             broken)
            IN  /\ \A i \in 1..Len(l.done) :
                       /\ l.done[i].live
                       /\ l.done[i].to \in l.active
                       /\ \A j \in 1..Len(l.done) :
                              i # j => l.done[i].to # l.done[j].to
                /\ \A c \in Chans \ l.active :
                       l.queue[c] = queue[c]
                /\ l.active = d.active
                /\ l.queue = d.queue)

\* one stream has closed, another was evicted with room left in its outbox,
\* and a notification published afterwards reached the third only
C29_Witness ==
    \E c, d, e \in Chans :
        /\ stream[c] = "closed"
        /\ stream[d] = "loop" /\ d \notin active_connections
        /\ ~OutboxFull(d) /\ ~Given(d, 2) /\ ~Given(c, 2)
        /\ e \in active_connections
        /\ Given(e, 2)

\* the hub has dropped the queue of stream c and the stream is still open
Evicted(c) == stream[c] \in {"open", "loop"} /\ c \notin active_connections

====
